---- MODULE Spec2Model ----
(***************************************************************************)
(* Model of the VNExpress crawler of src/main.py: the control loop of      *)
(* main(), one pass of process_articles() over the categories and pages,   *)
(* the listing discovery filtered against the articles table, the          *)
(* concurrent extraction tasks of asyncio.gather, GroqSummarizer.summarize *)
(* with its cache and its recursive retry, TelegramPoster.post_update and  *)
(* DatabaseManager.insert_article.                                         *)
(***************************************************************************)
EXTENDS Integers, Sequences, FiniteSets, TLC

\* ------------------------------------------------------------------ bounds
MaxCycles == 2          \* passes of the while-loop of main() that are explored
MaxAttempts == 4        \* generation-service calls explored in one summarize()
MaxNote == 2            \* the history counters saturate at this value

\* ------------------------------------------------------- program constants
NumCategories == 3      \* len(article_type_dict)
pages == 2              \* default of get_latest_articles(article_type, pages=2)
num_workers == 5        \* VNExpressCrawler(num_workers=5, ...)
total_pages == 1        \* VNExpressCrawler(..., total_pages=1)
MinPieces == 4          \* len(summary.split(".")) < 4

Categories == 1..NumCategories
URLs == {"u1", "u2"}
None == <<"None">>      \* Python's None where a text can stand: no text is this sequence
NoArticle == [none |-> TRUE]   \* Python's None where an article dict can stand

\* ------------------------------------------------------------ pure helpers
Min(a, b) == IF a < b THEN a ELSE b

Bump(n) == Min(n + 1, MaxNote)

Range(s) == {s[i] : i \in 1..Len(s)}

\* str.strip(): drop the leading and the trailing blanks
RECURSIVE LStrip(_)
LStrip(s) == IF s # <<>> /\ Head(s) = " " THEN LStrip(Tail(s)) ELSE s

RECURSIVE RStrip(_)
RStrip(s) ==
    IF s # <<>> /\ s[Len(s)] = " " THEN RStrip(SubSeq(s, 1, Len(s) - 1)) ELSE s

Strip(s) == RStrip(LStrip(s))

\* str.split("."): the pieces between the dots; n dots give n + 1 pieces
RECURSIVE SplitFrom(_, _, _)
SplitFrom(s, acc, cur) ==
    IF s = <<>> THEN Append(acc, cur)
    ELSE IF Head(s) = "." THEN SplitFrom(Tail(s), Append(acc, cur), <<>>)
    ELSE SplitFrom(Tail(s), acc, Append(cur, Head(s)))

Split(s) == SplitFrom(s, <<>>, <<>>)

TooShort(s) == Len(Split(s)) < MinPieces

\* the texts the generation service can answer with
R2 == <<"a", ".", " ", "b", ".">>
R3 == <<"a", ".", " ", "b", ".", " ", "c", ".">>
R5 == <<" ", "a", ".", "b", ".", "c", ".", "d", ".", "e", ".", " ">>
Responses == {R2, R3, R5}

\* what extract_content can return: (title, description, paragraphs)
NoContent == <<None, None, None>>
ExtractOutcomes ==
    { NoContent,
      <<<<>>, <<"d">>, <<"p">>>>,
      <<<<"t">>, <<>>, <<>>>>,
      <<<<"t">>, <<"d">>, <<>>>>,
      <<<<"t">>, <<>>, <<"p">>>> }

\* Python's truth value of an Optional[str]
Truthy(x) == x # None /\ x # <<>>

\* mutant of MakeArticle: the title is not tested
MakeArticleNoTitleTest(url, category, o) ==
    IF Truthy(o[2]) \/ Truthy(o[3])
    THEN [title |-> o[1], content |-> o[2] \o <<"\n">> \o o[3],
          url |-> url, category |-> category]
    ELSE NoArticle

\* process_article after extract_content has returned outcome o
MakeArticle(url, category, o) ==
    IF Truthy(o[1]) /\ (Truthy(o[2]) \/ Truthy(o[3]))
    THEN [title |-> o[1], content |-> o[2] \o <<"\n">> \o o[3],
          url |-> url, category |-> category]
    ELSE NoArticle

RECURSIVE SelectNotNone(_)
SelectNotNone(s) ==
    IF s = <<>> THEN <<>>
    ELSE IF Head(s) = NoArticle THEN SelectNotNone(Tail(s))
    ELSE <<Head(s)>> \o SelectNotNone(Tail(s))

\* ------------------------------------------------------------------- state
VARIABLES
    listing,      \* the site: listing[c][p] is the headline URLs of page p of category c
    store,        \* the articles table: url -> summary of its row, None without a row
    pc,           \* where the control loop of main() / process_articles() stands
    cycle,        \* how many passes of process_articles() have been started
    session,      \* crawler.session is an open aiohttp.ClientSession
    category,     \* index of the category of the for-loop of process_articles
    page,         \* page of the for-loop of get_latest_articles
    tasks,        \* the process_article coroutines handed to asyncio.gather
    articles,     \* the list get_latest_articles accumulates, then the one of process_articles
    idx,          \* position of the for-loop over articles
    cache,        \* summarizer.cache: content -> summary, None without an entry
    text,         \* argument of the running summarize()
    calls,        \* generation-service calls made by the running top-level summarize()
    summary,      \* what the last summarize() returned
    genOutcome,   \* how the last service call of the running summarize() ended
    published,    \* history: successful send_message calls per url (saturating)
    posted,       \* history: did the send_message of the article at idx succeed
    storeAtStart, \* history: urls with a row when the running pass started
    cyclePubs,    \* history: urls posted successfully in the running pass
    cycleWrites,  \* history: urls written by insert_article in the running pass
    prevFull,     \* history: the previous pass ran to "completed successfully"
    full,         \* history: the running pass has not been aborted
    sumInv,       \* history: top-level summarize() calls per content on this summarizer
    genCalls,     \* history: generation-service calls per content on this summarizer
    listFailed,   \* history: the last get_urls_of_type_thread ended in its except
    skipped,      \* history: urls of the articles skipped for an empty summary
    dbOps,        \* the DatabaseManager calls in flight: [op, url, by], by = 0 is the control task
    articles_urls, \* the list the running get_urls_of_type_thread builds
    pos           \* position of its for-loop over titles

vars == <<listing, store, pc, cycle, session, category, page, tasks, articles, idx,
          cache, text, calls, summary, genOutcome, published, posted, storeAtStart,
          cyclePubs, cycleWrites, prevFull, full, sumInv, genCalls,
          listFailed, skipped, dbOps, articles_urls, pos>>

crawlerVars == <<session, category, page, tasks, articles, idx>>
sumVars == <<cache, text, calls, summary, genOutcome, sumInv, genCalls>>
histVars == <<published, posted, storeAtStart, cyclePubs, cycleWrites, prevFull, full>>
noteVars == <<listFailed, skipped>>
dbVars == <<dbOps, articles_urls, pos>>

Contents == {<<"d", "\n">>, <<"\n", "p">>}

EmptyPage == <<>>
NoListing == [c \in Categories |-> [p \in 1..pages |-> EmptyPage]]

\* the listings explored: one url twice on a page, on two pages of a category,
\* in two categories, and two urls spread over the site
ListingChoices ==
    { [NoListing EXCEPT ![1][1] = <<"u1", "u1">>],
      [NoListing EXCEPT ![1][1] = <<"u1">>, ![1][2] = <<"u1">>],
      [NoListing EXCEPT ![1][1] = <<"u1">>, ![2][1] = <<"u1">>],
      [NoListing EXCEPT ![1][2] = <<"u1", "u2">>, ![3][1] = <<"u2">>] }

\* a page of more headlines than num_workers
BurstLen == num_workers + 1
BurstPage == [i \in 1..BurstLen |-> IF i % 2 = 1 THEN "u1" ELSE "u2"]

Init ==
    /\ listing \in ListingChoices
    /\ store = [u \in URLs |-> None]
    /\ pc = "idle"
    /\ cycle = 0
    /\ session = FALSE
    /\ category = 1
    /\ page = 1
    /\ tasks = <<>>
    /\ articles = <<>>
    /\ idx = 1
    /\ cache = [c \in Contents |-> None]
    /\ text = None
    /\ calls = 0
    /\ summary = <<>>
    /\ genOutcome = "none"
    /\ published = [u \in URLs |-> 0]
    /\ posted = FALSE
    /\ storeAtStart = {}
    /\ cyclePubs = {}
    /\ cycleWrites = {}
    /\ prevFull = FALSE
    /\ full = FALSE
    /\ sumInv = [c \in Contents |-> 0]
    /\ genCalls = [c \in Contents |-> 0]
    /\ listFailed = FALSE
    /\ skipped = {}
    /\ dbOps = {}
    /\ articles_urls = <<>>
    /\ pos = 1

Stored == {u \in URLs : store[u] # None}

\* ------------------------------------------------------- main / the cycle
\* main(): the while-loop calls process_articles(), which builds a new crawler,
\* a new summarizer (with an empty cache) and a new poster
StartCycle ==
    /\ pc = "idle"
    /\ pc' = "create_table"
    /\ cycle' = cycle + 1
    /\ session' = FALSE
    /\ cache' = [c \in Contents |-> None]
    /\ sumInv' = [c \in Contents |-> 0]
    /\ genCalls' = [c \in Contents |-> 0]
    /\ storeAtStart' = Stored
    /\ cyclePubs' = {}
    /\ cycleWrites' = {}
    /\ prevFull' = full
    /\ full' = TRUE
    /\ UNCHANGED <<listing, store, category, page, tasks, articles, idx,
                   text, calls, summary, genOutcome, published, posted>>
    /\ UNCHANGED noteVars
    /\ UNCHANGED dbVars

\* create_table() and create_session() succeed; the category loop starts
CreateTableOk ==
    /\ pc = "create_table"
    /\ session' = TRUE
    /\ category' = 1
    /\ page' = 1
    /\ articles' = <<>>
    /\ tasks' = <<>>
    /\ pc' = "get_urls"
    /\ UNCHANGED <<listing, store, cycle, idx>>
    /\ UNCHANGED sumVars
    /\ UNCHANGED histVars
    /\ UNCHANGED noteVars
    /\ UNCHANGED dbVars

\* create_table() raises (store unreachable): it is called before the try of
\* process_articles and main() has no handler, so the exception ends the loop
CreateTableFail ==
    /\ pc = "create_table"
    /\ pc' = "crashed"
    /\ full' = FALSE
    /\ UNCHANGED <<listing, store, cycle>>
    /\ UNCHANGED crawlerVars
    /\ UNCHANGED sumVars
    /\ UNCHANGED <<published, posted, storeAtStart, cyclePubs, cycleWrites, prevFull>>
    /\ UNCHANGED noteVars
    /\ UNCHANGED dbVars

\* ------------------------------------------------- listing and extraction
\* the loop of get_urls_of_type_thread over the headlines: a url is kept when
\* is_article_crawled(url) is false
\* mutant of NotCrawled: every headline is kept, is_article_crawled is not asked
KeepAll(titles) == titles

RECURSIVE NotCrawled(_)
NotCrawled(titles) ==
    IF titles = <<>> THEN <<>>
    ELSE IF store[Head(titles)] = None
         THEN <<Head(titles)>> \o NotCrawled(Tail(titles))
         ELSE NotCrawled(Tail(titles))

NewTasks(urls) == [i \in 1..Len(urls) |-> [url |-> urls[i], st |-> "pending", res |-> NoArticle]]

\* the DatabaseManager call the control task has in flight
MainOp(op, u) == [op |-> op, url |-> u, by |-> 0]

\* get_urls_of_type_thread(category, page): the listing is fetched and parsed;
\* without headlines it returns [], otherwise the for-loop over titles starts
FetchListing ==
    /\ pc = "get_urls"
    /\ IF listing[category][page] = EmptyPage
       THEN /\ tasks' = NewTasks(<<>>)
            /\ pc' = "gather"
       ELSE /\ tasks' = tasks
            /\ pc' = "check_urls"
    /\ articles_urls' = <<>>
    /\ pos' = 1
    /\ listFailed' = FALSE
    /\ UNCHANGED <<listing, store, cycle, session, category, page, articles, idx>>
    /\ UNCHANGED sumVars
    /\ UNCHANGED histVars
    /\ UNCHANGED <<skipped, dbOps>>

\* the for-loop awaits is_article_crawled(url) of the headline at pos: the
\* connection is opened and the SELECT is sent
CrawledStart ==
    /\ pc = "check_urls"
    /\ pos <= Len(listing[category][page])
    /\ dbOps' = dbOps \cup {MainOp("exists", listing[category][page][pos])}
    /\ pc' = "checking"
    /\ UNCHANGED <<listing, store, cycle>>
    /\ UNCHANGED crawlerVars
    /\ UNCHANGED sumVars
    /\ UNCHANGED histVars
    /\ UNCHANGED noteVars
    /\ UNCHANGED <<articles_urls, pos>>

\* is_article_crawled returns: the url is appended when it has no row, and
\* the for-loop goes on with the next headline
CrawledReturn ==
    /\ pc = "checking"
    /\ dbOps' = dbOps \ {MainOp("exists", listing[category][page][pos])}
    /\ articles_urls' = articles_urls \o NotCrawled(<<listing[category][page][pos]>>)
    /\ pos' = pos + 1
    /\ pc' = "check_urls"
    /\ UNCHANGED <<listing, store, cycle>>
    /\ UNCHANGED crawlerVars
    /\ UNCHANGED sumVars
    /\ UNCHANGED histVars
    /\ UNCHANGED noteVars

\* get_urls_of_type_thread(category, page) returns and get_latest_articles
\* builds one process_article coroutine per url
GetUrls ==
    /\ pc = "check_urls"
    /\ pos > Len(listing[category][page])
    /\ tasks' = NewTasks(articles_urls)
    /\ pc' = "gather"
    /\ articles_urls' = <<>>
    /\ pos' = 1
    /\ UNCHANGED <<listing, store, cycle, session, category, page, articles, idx>>
    /\ UNCHANGED sumVars
    /\ UNCHANGED histVars
    /\ listFailed' = FALSE
    /\ UNCHANGED <<skipped, dbOps>>

\* mutant of GetUrlsError: no except in get_urls_of_type_thread, the error
\* reaches the except and the finally of process_articles
GetUrlsErrorRaises ==
    /\ pc \in {"get_urls", "check_urls", "checking"}
    /\ pc' = "sleep"
    /\ session' = FALSE
    /\ full' = FALSE
    /\ listFailed' = TRUE
    /\ dbOps' = {o \in dbOps : o.by # 0}
    /\ articles_urls' = <<>>
    /\ pos' = 1
    /\ UNCHANGED <<listing, store, cycle, category, page, tasks, articles, idx>>
    /\ UNCHANGED sumVars
    /\ UNCHANGED <<published, posted, storeAtStart, cyclePubs, cycleWrites, prevFull>>
    /\ UNCHANGED skipped

\* the listing fetch or its parse raises, or is_article_crawled raises on a
\* headline (its async with closes the connection): the except of
\* get_urls_of_type_thread returns []
GetUrlsError ==
    /\ pc \in {"get_urls", "check_urls", "checking"}
    /\ tasks' = NewTasks(<<>>)
    /\ pc' = "gather"
    /\ dbOps' = {o \in dbOps : o.by # 0}
    /\ articles_urls' = <<>>
    /\ pos' = 1
    /\ UNCHANGED <<listing, store, cycle, session, category, page, articles, idx>>
    /\ UNCHANGED sumVars
    /\ UNCHANGED histVars
    /\ listFailed' = TRUE
    /\ UNCHANGED skipped

\* mutant of TaskStart: process_article asks is_article_crawled(url) itself
\* before it fetches the article
TaskStartAsksStore(i) ==
    /\ pc = "gather"
    /\ tasks[i].st = "pending"
    /\ \A j \in 1..(i - 1) : tasks[j].st # "pending"
    /\ tasks' = [tasks EXCEPT ![i].st = "inflight"]
    /\ dbOps' = dbOps \cup {[op |-> "exists", url |-> tasks[i].url, by |-> i]}
    /\ UNCHANGED <<listing, store, pc, cycle, session, category, page, articles, idx>>
    /\ UNCHANGED sumVars
    /\ UNCHANGED histVars
    /\ UNCHANGED noteVars
    /\ UNCHANGED <<articles_urls, pos>>

\* the event loop runs a gathered task up to its session.get: tasks are
\* started in the order gather received them
TaskStart(i) ==
    /\ pc = "gather"
    /\ tasks[i].st = "pending"
    /\ \A j \in 1..(i - 1) : tasks[j].st # "pending"
    /\ tasks' = [tasks EXCEPT ![i].st = "inflight"]
    /\ UNCHANGED <<listing, store, pc, cycle, session, category, page, articles, idx>>
    /\ UNCHANGED sumVars
    /\ UNCHANGED histVars
    /\ UNCHANGED noteVars
    /\ UNCHANGED dbVars

\* extract_content of task i returns o and process_article builds its result
TaskFinish(i, o) ==
    /\ pc = "gather"
    /\ tasks[i].st = "inflight"
    /\ tasks' = [tasks EXCEPT ![i].st = "done",
                              ![i].res = MakeArticle(tasks[i].url, category, o)]
    /\ UNCHANGED <<listing, store, pc, cycle, session, category, page, articles, idx>>
    /\ UNCHANGED sumVars
    /\ UNCHANGED histVars
    /\ UNCHANGED noteVars
    /\ UNCHANGED dbVars

InFlight == Cardinality({i \in 1..Len(tasks) : tasks[i].st = "inflight"})

Results == [i \in 1..Len(tasks) |-> tasks[i].res]

\* mutant of PageDone: the page is left without awaiting the gathered tasks
PageDoneEarly ==
    /\ pc = "gather"
    /\ tasks' = <<>>
    /\ IF page < pages
       THEN /\ articles' = articles \o Results
            /\ page' = page + 1
            /\ pc' = "get_urls"
            /\ idx' = idx
       ELSE /\ articles' = SelectNotNone(articles \o Results)
            /\ page' = page
            /\ idx' = 1
            /\ pc' = "article"
    /\ UNCHANGED <<listing, store, cycle, session, category>>
    /\ UNCHANGED sumVars
    /\ UNCHANGED histVars
    /\ listFailed' = FALSE
    /\ UNCHANGED skipped
    /\ UNCHANGED dbVars

\* gather returns: the results extend articles; after the last page the list
\* without its None entries goes to the for-loop of process_articles
PageDone ==
    /\ pc = "gather"
    /\ \A i \in 1..Len(tasks) : tasks[i].st = "done"
    /\ tasks' = <<>>
    /\ IF page < pages
       THEN /\ articles' = articles \o Results
            /\ page' = page + 1
            /\ pc' = "get_urls"
            /\ idx' = idx
       ELSE /\ articles' = SelectNotNone(articles \o Results)
            /\ page' = page
            /\ idx' = 1
            /\ pc' = "article"
    /\ UNCHANGED <<listing, store, cycle, session, category>>
    /\ UNCHANGED sumVars
    /\ UNCHANGED histVars
    /\ listFailed' = FALSE
    /\ UNCHANGED skipped
    /\ UNCHANGED dbVars

\* ------------------------------------------------ the loop over articles
\* for article in articles: the content is non-empty, summarize() is called
NextArticle ==
    /\ pc = "article"
    /\ idx <= Len(articles)
    /\ IF articles[idx].content # <<>>
       THEN /\ text' = articles[idx].content
            /\ calls' = 0
            /\ genOutcome' = "none"
            /\ sumInv' = [sumInv EXCEPT ![articles[idx].content] = Bump(@)]
            /\ pc' = "summarize"
            /\ idx' = idx
       ELSE /\ idx' = idx + 1
            /\ UNCHANGED <<text, calls, genOutcome, sumInv, pc>>
    /\ posted' = FALSE
    /\ UNCHANGED <<listing, store, cycle, session, category, page, tasks, articles>>
    /\ UNCHANGED <<cache, summary, genCalls>>
    /\ UNCHANGED <<published, storeAtStart, cyclePubs, cycleWrites, prevFull, full>>
    /\ UNCHANGED noteVars
    /\ UNCHANGED dbVars

\* summarize(): text is in self.cache, the cached value is returned
SumCacheHit ==
    /\ pc = "summarize"
    /\ cache[text] # None
    /\ summary' = cache[text]
    /\ pc' = "summarized"
    /\ UNCHANGED <<listing, store, cycle>>
    /\ UNCHANGED crawlerVars
    /\ UNCHANGED <<cache, text, calls, genOutcome, sumInv, genCalls>>
    /\ UNCHANGED histVars
    /\ UNCHANGED noteVars
    /\ UNCHANGED dbVars

\* mutant of SumRequest: the service is called without looking at the cache
SumRequestAlways ==
    /\ pc = "summarize"
    /\ calls' = calls + 1
    /\ genCalls' = [genCalls EXCEPT ![text] = Bump(@)]
    /\ pc' = "generate"
    /\ UNCHANGED <<listing, store, cycle>>
    /\ UNCHANGED crawlerVars
    /\ UNCHANGED <<cache, text, summary, genOutcome, sumInv>>
    /\ UNCHANGED histVars
    /\ UNCHANGED noteVars
    /\ UNCHANGED dbVars

\* summarize(): no cache entry, chat.completions.create is called
SumRequest ==
    /\ pc = "summarize"
    /\ cache[text] = None
    /\ calls' = calls + 1
    /\ genCalls' = [genCalls EXCEPT ![text] = Bump(@)]
    /\ pc' = "generate"
    /\ UNCHANGED <<listing, store, cycle>>
    /\ UNCHANGED crawlerVars
    /\ UNCHANGED <<cache, text, summary, genOutcome, sumInv>>
    /\ UNCHANGED histVars
    /\ UNCHANGED noteVars
    /\ UNCHANGED dbVars

\* mutant of GenReturn: the answer is cached before its length is tested
GenReturnCacheFirst(r) ==
    /\ pc = "generate"
    /\ IF TooShort(Strip(r))
       THEN /\ calls < MaxAttempts
            /\ genOutcome' = "short"
            /\ pc' = "summarize"
            /\ cache' = [cache EXCEPT ![text] = Strip(r)]
            /\ UNCHANGED summary
       ELSE /\ cache' = [cache EXCEPT ![text] = Strip(r)]
            /\ summary' = Strip(r)
            /\ genOutcome' = "ok"
            /\ pc' = "summarized"
    /\ UNCHANGED <<listing, store, cycle>>
    /\ UNCHANGED crawlerVars
    /\ UNCHANGED <<text, calls, sumInv, genCalls>>
    /\ UNCHANGED histVars
    /\ UNCHANGED noteVars
    /\ UNCHANGED dbVars

\* the service answers r: a stripped answer of fewer than 4 pieces makes
\* summarize call itself again, any other is cached and returned
GenReturn(r) ==
    /\ pc = "generate"
    /\ IF TooShort(Strip(r))
       THEN /\ calls < MaxAttempts
            /\ genOutcome' = "short"
            /\ pc' = "summarize"
            /\ UNCHANGED <<cache, summary>>
       ELSE /\ cache' = [cache EXCEPT ![text] = Strip(r)]
            /\ summary' = Strip(r)
            /\ genOutcome' = "ok"
            /\ pc' = "summarized"
    /\ UNCHANGED <<listing, store, cycle>>
    /\ UNCHANGED crawlerVars
    /\ UNCHANGED <<text, calls, sumInv, genCalls>>
    /\ UNCHANGED histVars
    /\ UNCHANGED noteVars
    /\ UNCHANGED dbVars

\* mutant of GenError: the except retries instead of returning ""
GenErrorRetry ==
    /\ pc = "generate"
    /\ calls < MaxAttempts
    /\ genOutcome' = "error"
    /\ pc' = "summarize"
    /\ UNCHANGED <<listing, store, cycle>>
    /\ UNCHANGED crawlerVars
    /\ UNCHANGED <<cache, text, calls, summary, sumInv, genCalls>>
    /\ UNCHANGED histVars
    /\ UNCHANGED noteVars
    /\ UNCHANGED dbVars

\* the service call raises: the except of summarize returns ""
GenError ==
    /\ pc = "generate"
    /\ summary' = <<>>
    /\ genOutcome' = "error"
    /\ pc' = "summarized"
    /\ UNCHANGED <<listing, store, cycle>>
    /\ UNCHANGED crawlerVars
    /\ UNCHANGED <<cache, text, calls, sumInv, genCalls>>
    /\ UNCHANGED histVars
    /\ UNCHANGED noteVars
    /\ UNCHANGED dbVars

\* mutant of CheckSummary: the `if summary:` test is dropped
CheckSummaryNoGuard ==
    /\ pc = "summarized"
    /\ pc' = "post"
    /\ genOutcome' = "none"
    /\ UNCHANGED <<listing, store, cycle>>
    /\ UNCHANGED crawlerVars
    /\ UNCHANGED <<cache, text, calls, summary, sumInv, genCalls>>
    /\ UNCHANGED histVars
    /\ UNCHANGED noteVars
    /\ UNCHANGED dbVars

\* if summary: post_update and insert_article follow; else sleep(3), next article
CheckSummary ==
    /\ pc = "summarized"
    /\ IF summary # <<>>
       THEN pc' = "post" /\ idx' = idx
       ELSE pc' = "article" /\ idx' = idx + 1
    /\ genOutcome' = "none"
    /\ UNCHANGED <<listing, store, cycle, session, category, page, tasks, articles>>
    /\ UNCHANGED <<cache, text, calls, summary, sumInv, genCalls>>
    /\ UNCHANGED histVars
    /\ skipped' = IF summary # <<>> THEN skipped ELSE skipped \cup {articles[idx].url}
    /\ UNCHANGED listFailed
    /\ UNCHANGED dbVars

\* post_update: send_message succeeds
PostOk ==
    /\ pc = "post"
    /\ published' = [published EXCEPT ![articles[idx].url] = Bump(@)]
    /\ cyclePubs' = cyclePubs \cup {articles[idx].url}
    /\ posted' = TRUE
    /\ pc' = "insert"
    /\ UNCHANGED <<listing, store, cycle>>
    /\ UNCHANGED crawlerVars
    /\ UNCHANGED sumVars
    /\ UNCHANGED <<storeAtStart, cycleWrites, prevFull, full>>
    /\ UNCHANGED noteVars
    /\ UNCHANGED dbVars

\* post_update: send_message raises; the except logs it and post_update
\* returns as it does after a success
PostError ==
    /\ pc = "post"
    /\ posted' = FALSE
    /\ pc' = "insert"
    /\ UNCHANGED <<listing, store, cycle>>
    /\ UNCHANGED crawlerVars
    /\ UNCHANGED sumVars
    /\ UNCHANGED <<published, storeAtStart, cyclePubs, cycleWrites, prevFull, full>>
    /\ UNCHANGED noteVars
    /\ UNCHANGED dbVars

\* process_articles awaits insert_article(article, summary): the connection
\* is opened and the INSERT OR REPLACE is sent
InsertStart ==
    /\ pc = "insert"
    /\ dbOps' = dbOps \cup {MainOp("upsert", articles[idx].url)}
    /\ pc' = "inserting"
    /\ UNCHANGED <<listing, store, cycle>>
    /\ UNCHANGED crawlerVars
    /\ UNCHANGED sumVars
    /\ UNCHANGED histVars
    /\ UNCHANGED noteVars
    /\ UNCHANGED <<articles_urls, pos>>

\* mutant of InsertOk: the row is not committed, later reads do not see it
InsertOkNoCommit ==
    /\ pc = "inserting"
    /\ store' = store
    /\ dbOps' = dbOps \ {MainOp("upsert", articles[idx].url)}
    /\ cycleWrites' = cycleWrites \cup {articles[idx].url}
    /\ idx' = idx + 1
    /\ pc' = "article"
    /\ UNCHANGED <<listing, cycle, session, category, page, tasks, articles>>
    /\ UNCHANGED sumVars
    /\ UNCHANGED <<published, posted, storeAtStart, cyclePubs, prevFull, full>>
    /\ UNCHANGED noteVars
    /\ UNCHANGED <<articles_urls, pos>>

\* insert_article: INSERT OR REPLACE of the row of the url and commit, then
\* sleep(3)
InsertOk ==
    /\ pc = "inserting"
    /\ store' = [store EXCEPT ![articles[idx].url] = summary]
    /\ dbOps' = dbOps \ {MainOp("upsert", articles[idx].url)}
    /\ cycleWrites' = cycleWrites \cup {articles[idx].url}
    /\ idx' = idx + 1
    /\ pc' = "article"
    /\ UNCHANGED <<listing, cycle, session, category, page, tasks, articles>>
    /\ UNCHANGED sumVars
    /\ UNCHANGED <<published, posted, storeAtStart, cyclePubs, prevFull, full>>
    /\ UNCHANGED noteVars
    /\ UNCHANGED <<articles_urls, pos>>

\* mutant of InsertError: process_articles has no finally, the session is
\* left open when the pass is aborted
InsertErrorNoFinally ==
    /\ pc = "inserting"
    /\ session' = session
    /\ full' = FALSE
    /\ pc' = "sleep"
    /\ dbOps' = {o \in dbOps : o.by # 0}
    /\ UNCHANGED <<listing, store, cycle, category, page, tasks, articles, idx>>
    /\ UNCHANGED sumVars
    /\ UNCHANGED <<published, posted, storeAtStart, cyclePubs, cycleWrites, prevFull>>
    /\ UNCHANGED noteVars
    /\ UNCHANGED <<articles_urls, pos>>

\* insert_article raises (its async with closes the connection): the except
\* of process_articles logs it, the finally closes the session,
\* process_articles returns and main() sleeps
InsertError ==
    /\ pc = "inserting"
    /\ session' = FALSE
    /\ full' = FALSE
    /\ pc' = "sleep"
    /\ dbOps' = {o \in dbOps : o.by # 0}
    /\ UNCHANGED <<listing, store, cycle, category, page, tasks, articles, idx>>
    /\ UNCHANGED sumVars
    /\ UNCHANGED <<published, posted, storeAtStart, cyclePubs, cycleWrites, prevFull>>
    /\ UNCHANGED noteVars
    /\ UNCHANGED <<articles_urls, pos>>

\* the articles of the category are done: sleep(5), then the next category,
\* or after the last one the finally closes the session and main() sleeps
CategoryDone ==
    /\ pc = "article"
    /\ idx > Len(articles)
    /\ articles' = <<>>
    /\ idx' = 1
    /\ IF category < NumCategories
       THEN /\ category' = category + 1
            /\ page' = 1
            /\ pc' = "get_urls"
            /\ session' = session
       ELSE /\ session' = FALSE
            /\ pc' = "sleep"
            /\ UNCHANGED <<category, page>>
    /\ UNCHANGED <<listing, store, cycle, tasks>>
    /\ UNCHANGED sumVars
    /\ UNCHANGED histVars
    /\ UNCHANGED noteVars
    /\ UNCHANGED dbVars

\* asyncio.sleep(3600) of main() is over
Wake ==
    /\ pc = "sleep"
    /\ cycle < MaxCycles
    /\ pc' = "idle"
    /\ UNCHANGED <<listing, store, cycle>>
    /\ UNCHANGED crawlerVars
    /\ UNCHANGED sumVars
    /\ UNCHANGED histVars
    /\ UNCHANGED noteVars
    /\ UNCHANGED dbVars

Next ==
    \/ StartCycle
    \/ CreateTableOk
    \/ CreateTableFail
    \/ FetchListing
    \/ CrawledStart
    \/ CrawledReturn
    \/ GetUrls
    \/ GetUrlsError
    \/ \E i \in 1..Len(tasks) : TaskStart(i)
    \/ \E i \in 1..Len(tasks), o \in ExtractOutcomes : TaskFinish(i, o)
    \/ PageDone
    \/ NextArticle
    \/ SumCacheHit
    \/ SumRequest
    \/ \E r \in Responses : GenReturn(r)
    \/ GenError
    \/ CheckSummary
    \/ PostOk
    \/ PostError
    \/ InsertStart
    \/ InsertOk
    \/ InsertError
    \/ CategoryDone
    \/ Wake

Spec == Init /\ [][Next]_vars

\* ----------------------------------------- get_latest_articles on its own
\* get_latest_articles(category 1) is entered in the first pass, the store is
\* empty and page 1 lists n headlines, 0 <= n <= BurstLen
InitGather ==
    /\ \E n \in 0..BurstLen :
          listing = [NoListing EXCEPT ![1][1] = SubSeq(BurstPage, 1, n)]
    /\ store = [u \in URLs |-> None]
    /\ pc = "get_urls"
    /\ cycle = 1
    /\ session = TRUE
    /\ category = 1
    /\ page = 1
    /\ tasks = <<>>
    /\ articles = <<>>
    /\ idx = 1
    /\ cache = [c \in Contents |-> None]
    /\ text = None
    /\ calls = 0
    /\ summary = <<>>
    /\ genOutcome = "none"
    /\ published = [u \in URLs |-> 0]
    /\ posted = FALSE
    /\ storeAtStart = {}
    /\ cyclePubs = {}
    /\ cycleWrites = {}
    /\ prevFull = FALSE
    /\ full = TRUE
    /\ sumInv = [c \in Contents |-> 0]
    /\ genCalls = [c \in Contents |-> 0]
    /\ listFailed = FALSE
    /\ skipped = {}
    /\ dbOps = {}
    /\ articles_urls = <<>>
    /\ pos = 1

NextGather ==
    \/ FetchListing
    \/ CrawledStart
    \/ CrawledReturn
    \/ GetUrls
    \/ GetUrlsError
    \/ \E i \in 1..Len(tasks) : TaskStart(i)
    \/ \E i \in 1..Len(tasks), o \in ExtractOutcomes : TaskFinish(i, o)
    \/ PageDone

SpecGather == InitGather /\ [][NextGather]_vars

\* ------------------------------------------------------------- the claims
\* the sentences of a text: its pieces that are ended by "." and are not blank
Sentences(s) ==
    Cardinality({i \in 1..(Len(Split(s)) - 1) : Strip(Split(s)[i]) # <<>>})

\* C1: publish-before-persist: a url has a row in the store only if a
\* send_message for it succeeded earlier, and insert_article is not reached
\* for an article whose send_message failed.
PublishBeforePersist ==
    /\ \A u \in URLs : store[u] # None => published[u] >= 1
    /\ pc = "insert" => posted

\* C2: exactly-once publication: no url is published successfully more than
\* once, whatever the listings hold and however many passes run.
ExactlyOncePublication == \A u \in URLs : published[u] <= 1

\* C3 as stated: a pass that follows a completed pass over the same listing
\* makes no successful publish call and no store write.
CycleIdempotence ==
    (cycle >= 2 /\ prevFull) => (cyclePubs = {} /\ cycleWrites = {})

\* C3 as amended: a pass publishes and writes nothing for a url that had a
\* row in the store when the pass started; the urls the earlier pass left
\* without a row are the only ones it can publish or write.
SeenNotReprocessed ==
    /\ cyclePubs \cap storeAtStart = {}
    /\ cycleWrites \cap storeAtStart = {}

\* C3 witness: a second pass over the same listing has ended; the first pass
\* completed and left a row, and the second published and wrote nothing.
SeenNotReprocessedWitness ==
    /\ cycle = 2 /\ pc = "sleep" /\ prevFull /\ full
    /\ storeAtStart # {}
    /\ \E c \in Categories, p \in 1..pages : Range(listing[c][p]) \cap storeAtStart # {}
    /\ cyclePubs = {} /\ cycleWrites = {}

\* C4: every row of the store has a non-empty summary, and insert_article is
\* never reached with an empty summary.
StoredSummaryNonEmpty ==
    /\ \A u \in URLs : store[u] # None => store[u] # <<>>
    /\ pc = "insert" => summary # <<>>

\* C4 witness: a row has been written.
StoredSummaryWitness == \E u \in URLs : store[u] # None /\ u \in cycleWrites

\* C5: bounded retry: one summarize() makes fewer generation-service calls
\* than any number the exploration allows, i.e. it stops retrying on its own
\* before the explored bound is reached.
BoundedRetry == calls < MaxAttempts

\* C6: validation gate: a text is accepted (cached and returned) only if it
\* has at least 4 sentences ended by ".".
ValidationGate ==
    /\ \A c \in Contents : cache[c] # None => Sentences(cache[c]) >= 4
    /\ (pc = "summarized" /\ summary # <<>>) => Sentences(summary) >= 4

\* C7 as stated: two summarize() calls with the same content on one
\* summarizer make one generation-service call in total, whatever the first
\* call returned.
CacheHitOnce == \A c \in Contents : sumInv[c] >= 2 => genCalls[c] <= 1

\* C7 as amended: on one summarizer, while a content has a cache entry the
\* entry stays as it is and no generation-service call is made for that
\* content, and a summarize() that finds its content in the cache returns the
\* cached value at once. (process_articles builds a new summarizer when a
\* pass starts, at pc = "idle".)
CacheHitNoCall ==
    [][ /\ \A c \in Contents :
             (cache[c] # None /\ pc # "idle")
                 => (cache'[c] = cache[c] /\ genCalls'[c] = genCalls[c])
        /\ (pc = "summarize" /\ cache[text] # None)
                 => (pc' = "summarized" /\ summary' = cache[text] /\ calls' = calls)
      ]_vars

\* C7 witness: the second summarize() of a content returned from the cache
\* without a service call; the first one made exactly one.
CacheHitWitness ==
    /\ pc = "summarized" /\ calls = 0
    /\ sumInv[text] = 2 /\ genCalls[text] = 1

\* C8: fail closed: when a generation-service call raises, on the first
\* attempt or on a retry, summarize() has returned "" to its caller: nothing
\* is retried, nothing propagates, the pass goes on.
FailClosed ==
    genOutcome = "error" => (pc = "summarized" /\ summary = <<>> /\ full)

\* C8 witness: the service raised on a retry, after a too short answer.
FailClosedWitness == genOutcome = "error" /\ calls >= 2

\* C9: concurrency bound: at most num_workers extract_content calls are in
\* flight at a time.
ConcurrencyBound == InFlight <= num_workers

\* C10: cycle-level failure survival: no failure inside a pass ends the
\* control loop of main().
CycleFailureSurvival == pc # "crashed"

TaskUrls == {tasks[i].url : i \in 1..Len(tasks)}

Headlines == Range(listing[category][page])

\* C11: per-url fault containment: an extraction that yields nothing, a
\* generation error and a publish error each end in a skip of that one
\* article (no publish, no upsert for it), the other tasks and articles are
\* untouched and the pass goes on.
FaultContainment ==
    [][ /\ \A i \in 1..Len(tasks) :
             ( /\ pc = "gather" /\ tasks[i].st = "inflight"
               /\ Len(tasks') = Len(tasks)
               /\ tasks'[i].st = "done" /\ tasks'[i].res = NoArticle )
             => ( /\ pc' = "gather" /\ full' = full /\ articles' = articles
                  /\ \A j \in 1..Len(tasks) : j # i => tasks'[j] = tasks[j] )
        /\ (pc = "generate" /\ genOutcome' = "error")
             => (pc' = "summarized" /\ summary' = <<>> /\ full' = full
                 /\ articles' = articles /\ idx' = idx)
        /\ (pc = "summarized" /\ summary = <<>>)
             => (pc' = "article" /\ idx' = idx + 1 /\ store' = store
                 /\ full' = full /\ articles' = articles)
        /\ (pc = "post" /\ ~posted')
             => (pc' = "article" /\ idx' = idx + 1 /\ store' = store
                 /\ full' = full /\ articles' = articles)
      ]_vars

\* C12: discovery filter: every url get_urls_of_type_thread returned is a
\* headline of the page that had no row in the store when it was checked; a
\* headline with a row is not returned.
DiscoveryFilter ==
    pc = "gather" => \A u \in TaskUrls : u \in Headlines /\ store[u] = None

\* C12 witness: a page with a stored and a new headline returned the new one.
DiscoveryFilterWitness ==
    /\ pc = "gather" /\ tasks # <<>>
    /\ \E u \in Headlines : store[u] # None

\* C13: listing degradation: a page without headlines and a page whose fetch,
\* parse or store check raised both give get_latest_articles an empty url
\* list, nothing is raised, and the next step of the pass is the return of
\* the empty gather, on to the next page or to the articles of the category.
ListingDegradation ==
    /\ [](listFailed => pc = "gather")
    /\ []((pc = "gather" /\ (listFailed \/ Headlines = {}))
              => (tasks = <<>> /\ full /\ session))
    /\ [][ (pc = "gather" /\ (listFailed \/ Headlines = {}))
              => ( /\ full' /\ session'
                   /\ IF page < pages
                      THEN pc' = "get_urls" /\ page' = page + 1 /\ category' = category
                      ELSE pc' = "article" ) ]_vars

\* C13 witness: the listing call of a page with a new headline failed.
ListingDegradationWitness ==
    /\ pc = "gather" /\ listFailed
    /\ \E u \in Headlines : store[u] = None

GoodArticle(a) ==
    a # NoArticle => (a.title # None /\ a.title # <<>> /\ a.content # <<"\n">>)

\* C14: empty-content skip: an extraction that returned nothing, an empty
\* title, or an empty excerpt and an empty body yields no article; what is
\* summarized, published and persisted is an article with a title and a
\* non-empty excerpt or body.
EmptyContentSkip ==
    /\ \A i \in 1..Len(tasks) : GoodArticle(tasks[i].res)
    /\ \A i \in 1..Len(articles) : GoodArticle(articles[i])
    /\ pc \in {"article", "summarize", "generate", "summarized", "post", "insert", "inserting"}
          => \A i \in 1..Len(articles) : articles[i] # NoArticle
    /\ pc \in {"summarize", "generate", "summarized", "post", "insert", "inserting"}
          => (idx <= Len(articles) /\ text = articles[idx].content)

\* C14 witness: a pass reached its article loop after an extraction whose
\* result process_article dropped.
EmptyContentSkipWitness ==
    /\ pc = "gather"
    /\ \E i \in 1..Len(tasks) : tasks[i].st = "done" /\ tasks[i].res = NoArticle
    /\ \E i \in 1..Len(tasks) : tasks[i].st = "done" /\ tasks[i].res # NoArticle

\* C15: SummaryCache lifetime: an accepted summary stays in the cache for as
\* long as the process runs.
CacheLifetime ==
    [][\A c \in Contents : cache[c] # None => cache'[c] = cache[c]]_vars

\* C16: page depth: the listing of a category is fetched for the pages
\* 1..total_pages and for no page above.
PageDepth == pc \in {"get_urls", "check_urls", "checking", "gather"} => page <= total_pages

\* C17: sequential pages and categories: a page's gather is left only when
\* every task of the page has completed, no extraction is in flight while a
\* listing is fetched, and a listing of the next category is fetched only
\* after the loop over the articles of the category has passed its last one.
SequentialPages ==
    /\ [](pc # "gather" => tasks = <<>>)
    /\ [][ /\ (pc = "gather" /\ pc' # "gather")
                => \A i \in 1..Len(tasks) : tasks[i].st = "done"
           /\ (pc' = "get_urls" /\ page' = page + 1)
                => (pc = "gather" /\ category' = category)
           /\ (pc' = "get_urls" /\ pc # "create_table" /\ category' # category)
                => (pc = "article" /\ idx > Len(articles) /\ category' = category + 1)
         ]_vars

\* C17 witness: page 2 of a later category is about to be listed, after page 1
\* gave an article and an earlier category persisted one.
SequentialPagesWitness ==
    /\ pc = "get_urls" /\ page = 2 /\ category > 1
    /\ Len(articles) >= 1 /\ cycleWrites # {}

CrossCategoryDedup == pc = "gather" => TaskUrls \cap cycleWrites = {}

\* C19 witness: a later category lists a url that an earlier category of the
\* same pass persisted, and the listing call did not fail.
CrossCategoryDedupWitness ==
    /\ pc = "gather" /\ category > 1 /\ ~listFailed
    /\ Headlines \cap cycleWrites # {}

\* C20: SummaryCache invariant: every cache entry is a non-empty stripped
\* answer of the service that passed the length test, and a rejected answer
\* or a failed call leaves the cache as it was.
SummaryCacheInvariant ==
    /\ [](\A c \in Contents : cache[c] # None =>
             ( /\ cache[c] # <<>>
               /\ ~TooShort(cache[c])
               /\ \E r \in Responses : cache[c] = Strip(r) ))
    /\ [][ (pc = "generate" /\ genOutcome' \in {"short", "error"})
              => cache' = cache ]_vars

\* C20 witness: an answer was accepted after an earlier answer of the same
\* summarize() was rejected.
SummaryCacheWitness ==
    /\ pc = "summarized" /\ calls >= 2
    /\ cache[text] # None /\ summary = cache[text]


\* C21: store access is never concurrent: the only DatabaseManager calls in
\* flight are those of the control task and there is at most one of them; no
\* call is in flight while process_article coroutines exist; the store is
\* changed only by the one upsert in flight, with no task alive and no
\* is_article_crawled read in flight.
StoreAccessSerial ==
    /\ [](Cardinality(dbOps) <= 1 /\ \A o \in dbOps : o.by = 0)
    /\ [](dbOps # {} => (tasks = <<>> /\ pc \in {"checking", "inserting"}))
    /\ [][ /\ store' # store
              => (tasks = <<>> /\ dbOps = {MainOp("upsert", articles[idx].url)})
           /\ (\E o \in dbOps : o.op = "exists") => store' = store
         ]_vars

\* C21 witness: the two extraction tasks of one page were gathered, and the
\* upsert of one of their articles is in flight after the reads of the page.
StoreAccessWitness ==
    /\ pc = "inserting"
    /\ Len(articles) >= 2
    /\ dbOps = {MainOp("upsert", articles[idx].url)}

\* C22: session release: whenever main() sleeps between two passes, after a
\* completed pass or an aborted one, the session of the pass is closed.
SessionRelease == pc \in {"sleep", "idle"} => ~session

\* C22 witness: a pass opened its session, was aborted by a failing
\* insert_article, and main() sleeps with the session closed.
SessionReleaseWitness ==
    /\ pc = "sleep"
    /\ cycle >= 1
    /\ ~full
    /\ ~session

====
